---- MODULE Spec2Model ----
(***************************************************************************)
(* WaterBuddy (src/WaterBuddy.py): a Streamlit dashboard that keeps a      *)
(* per-user profile and a per-day water-intake ledger in a Firebase        *)
(* realtime database reached over HTTP.                                    *)
(*                                                                         *)
(* The module holds these specifications over one set of variables:        *)
(*   SpecAcc     the store accessors called one at a time (get_intake,     *)
(*               update_intake, reset_intake, get_profile) on a store      *)
(*               whose contents and per-call HTTP outcomes are drawn from  *)
(*               bounded sets;                                             *)
(*   SpecAcc2    update_profile and log_water_entry, one call;             *)
(*   SpecHist    get_history, one call;                                    *)
(*   SpecHome    one run of view_dashboard on the Home page (percent,      *)
(*               remaining amount);                                        *)
(*   Spec        the dashboard script runs of one browser tab of a         *)
(*               logged-in user (view_dashboard, view_log, view_settings,  *)
(*               render_sidebar_navigation), every store call free to fail;*)
(*   SpecLedger  the handlers that write today's intake, and update_intake *)
(*               called directly;                                          *)
(*   SpecTabs    two tabs of the same user adding water, the store         *)
(*               answering every call;                                     *)
(*   SpecSession one session from the login page on (main, view_login,     *)
(*               logout);                                                  *)
(*   SpecAuth    the signup page (view_signup, create_user, find_user).    *)
(***************************************************************************)
EXTENDS Integers, Sequences, FiniteSets

VARIABLES
    users,      \* store: /users as the sequence of records, in push-id order
    profile,    \* store: /users/<uid>/profile of the modelled user (JSON)
    intake,     \* store: /users/<uid>/days/<TODAY>/intake (JSON)
    log,        \* store: /users/<uid>/days/<TODAY>/log_entries, the amounts in timestamp order
    pc,         \* per session: position of the Streamlit script run
    loaded,     \* per session: locals of the script run (profile, intake, find_user result)
    theme,      \* per session: st.session_state.theme
    report,     \* per session: what the last handler showed and did
    hist,       \* the last accessor calls made directly, oldest first
    days,       \* date.today() and the store's /users/<uid>/days/<d>/intake of the days before
    session     \* per session: st.session_state logged_in, uid, view

vars == <<users, profile, intake, log, pc, loaded, theme, report, hist, days, session>>

-----------------------------------------------------------------------------
(* Bounds of the model *)

MaxLog == 2
MaxUsers == 2

Sessions == {"tab1", "tab2"}

-----------------------------------------------------------------------------
(* Program constants *)

DEFAULT_QUICK_ADD == 250

FallbackGoal == 2500

AgeGroups == {"6-12", "13-18", "19-50", "65+"}

AGE_GROUP_DEFAULTS ==
    [g \in AgeGroups |->
        CASE g = "6-12" -> 1600
          [] g = "13-18" -> 2000
          [] g = "19-50" -> 2500
          [] g = "65+" -> 2000]

Themes == {"Light", "Aqua", "Dark"}

Max(a, b) == IF a >= b THEN a ELSE b

-----------------------------------------------------------------------------
(* JSON values held by the store and Python values returned by the          *)
(* accessors.  A JSON scalar is [t, n]: t its kind and n its integer        *)
(* content: the integer itself ("int"), the truncation toward zero of a     *)
(* number with a fractional part ("float"), the integer a decimal string    *)
(* spells ("numstr"), 0/1 for false/true ("bool"); "str" is any other       *)
(* string, "obj" an object or array, "null" JSON null / an absent node.     *)

J(t, n) == [t |-> t, n |-> n]
JNull == J("null", 0)
JInt(n) == J("int", n)

(* None, the value every failed read degrades to *)
None == JNull

(* A Python evaluation: the value, or an exception escaping the function *)
Ret(v) == [exc |-> FALSE, v |-> v]
Raise == [exc |-> TRUE, v |-> 0]

-----------------------------------------------------------------------------
(* HTTP outcomes of one store call.                                         *)
(*   ok         status 200/201 and a JSON body; a write is applied          *)
(*   status     a non-success status; nothing is applied                    *)
(*   transport  requests raises RequestException (timeout, DNS, refused)    *)
(*   badjson    (reads) status 200 whose body is not JSON: r.json() raises  *)
(*              requests.exceptions.JSONDecodeError, a RequestException     *)

WriteOutcomes == {"ok", "status", "transport"}
ReadOutcomes == {"ok", "status", "transport", "badjson"}

(* fb_get: the parsed body on status 200, None otherwise *)
fb_get(o, body) == IF o = "ok" THEN body ELSE None

(* fb_patch: True exactly on status 200/201 *)
fb_patch(o) == o = "ok"

(* fb_post: the parsed response (not None) exactly on status 200/201 *)
fb_post(o) == o = "ok"

(* What the store holds after a write of `new` over `old` with outcome o *)
Applied(o, old, new) == IF o = "ok" THEN new ELSE old

-----------------------------------------------------------------------------
(* Python's int() on a parsed JSON value *)

py_int(raw) ==
    CASE raw.t = "int" -> Ret(raw.n)
      [] raw.t = "float" -> Ret(raw.n)
      [] raw.t = "numstr" -> Ret(raw.n)
      [] raw.t = "bool" -> Ret(raw.n)
      [] OTHER -> Raise

(* get_intake after its fb_get returned raw *)
get_intake_nocatch(raw) == IF raw.t # "null" THEN py_int(raw) ELSE Ret(0)

get_intake(raw) ==
    IF raw.t # "null"
      THEN IF py_int(raw).exc THEN Ret(0) ELSE py_int(raw)
      ELSE Ret(0)

(* update_intake: the value it PATCHes as today's intake *)
validated_amount_unclamped(amount) == amount

validated_amount_min(amount) == IF 0 <= amount THEN 0 ELSE amount

validated_amount(amount) == Max(0, amount)

(* update_intake: its return value *)
update_intake(o) == fb_patch(o)

(* reset_intake: the value it PATCHes as today's intake *)
reset_value_keep(old) == old

reset_value(old) == JInt(0)

(* reset_intake: its return value; o1 is the PATCH's outcome, whose result  *)
(* the code drops, o2 the DELETE's, whose status the code never reads       *)
reset_intake(o1, o2) == o2 # "transport"


-----------------------------------------------------------------------------
(* The profile node.  A stored profile is JSON null (absent), an object     *)
(* whose three fields may each be absent, or some other JSON value.         *)

Absent == "absent"
JAbsent == J("absent", 0)

Prof(t, a, g, th) == [t |-> t, age_group |-> a, user_goal_ml |-> g, theme |-> th]
ProfNull == Prof("null", Absent, JAbsent, Absent)
ProfOther == Prof("other", Absent, JAbsent, Absent)

(* What create_user stores as the profile of a new user *)
NewProfile == Prof("dict", "19-50", JInt(AGE_GROUP_DEFAULTS["19-50"]), "Light")

(* fb_get of the profile path: None is JSON null *)
fb_get_profile(o, body) == IF o = "ok" THEN body ELSE ProfNull

ProfRet(a, g, th) == [exc |-> FALSE, age_group |-> a, user_goal_ml |-> g, theme |-> th]
ProfRaise == [exc |-> TRUE, age_group |-> Absent, user_goal_ml |-> 0, theme |-> Absent]

(* AGE_GROUP_DEFAULTS.get(age_group, 2500) *)
default_goal(age_group) ==
    IF age_group \in AgeGroups THEN AGE_GROUP_DEFAULTS[age_group] ELSE FallbackGoal

profile_age_group(p) == IF p.age_group = Absent THEN "19-50" ELSE p.age_group

profile_goal(p) ==
    LET goal == IF p.user_goal_ml = JAbsent
                  THEN JInt(default_goal(profile_age_group(p)))
                  ELSE p.user_goal_ml
    IN  IF py_int(goal).exc THEN FallbackGoal ELSE py_int(goal).v

profile_theme(p) == IF p.theme = Absent THEN "Light" ELSE p.theme

(* get_profile after its fb_get returned raw: `raw or {}`, then three .get *)
get_profile_teen_default(raw) ==
    LET p == IF raw.t = "null" THEN Prof("dict", Absent, JAbsent, Absent) ELSE raw
    IN  IF p.t # "dict"
          THEN ProfRaise
          ELSE ProfRet(IF p.age_group = Absent THEN "13-18" ELSE p.age_group,
                       IF p.user_goal_ml = JAbsent
                         THEN AGE_GROUP_DEFAULTS["13-18"] ELSE profile_goal(p),
                       profile_theme(p))

get_profile(raw) ==
    LET p == IF raw.t = "null" THEN Prof("dict", Absent, JAbsent, Absent) ELSE raw
    IN  IF p.t # "dict"
          THEN ProfRaise
          ELSE ProfRet(profile_age_group(p), profile_goal(p), profile_theme(p))

-----------------------------------------------------------------------------
(* Initial values of the variables a specification does not use *)

NoLoaded ==
    [profile |-> get_profile(ProfNull), profile_failed |-> FALSE,
     intake |-> 0, intake_failed |-> FALSE,
     found |-> 0, username |-> "", password |-> ""]

(* What a handler showed and did: its messages, whether one of its store    *)
(* writes failed, whether it ended in st.rerun(), the amount it appended to *)
(* the log, the change of the stored intake, the theme the sidebar PATCHed, *)
(* whether that PATCH repeats the failed one of the run before, and whether *)
(* Save All Settings was pressed with the form as it was shown              *)
NoReport ==
    [msgs |-> {}, wfail |-> FALSE, rerun |-> FALSE, appended |-> 0, delta |-> 0,
     patched |-> "absent", reissued |-> FALSE, saved_unedited |-> FALSE]

(* The widget keyed "sidebar_theme_select": the index argument it was last  *)
(* rendered with (as the option it names) and its value                     *)
NoSelect == [index |-> "absent", value |-> "absent"]

(* DEFAULT_STATE; accepted is the set of uids login_user has accepted for   *)
(* the session                                                              *)
LoggedOut ==
    [logged_in |-> FALSE, uid |-> 0, view |-> "login", accepted |-> {},
     select |-> NoSelect]
LoggedIn(uid) ==
    [logged_in |-> TRUE, uid |-> uid, view |-> "dashboard", accepted |-> {uid},
     select |-> NoSelect]

(* The days before today: the date of today and, for i >= 1, past[i] the    *)
(* intake node of the date i days before it                                 *)
NoDays == [today |-> <<2026, 1, 2>>, past |-> <<>>]

SessionsIdle ==
    /\ pc = [s \in Sessions |-> "idle"]
    /\ loaded = [s \in Sessions |-> NoLoaded]
    /\ theme = [s \in Sessions |-> "Light"]
    /\ report = [s \in Sessions |-> NoReport]
    /\ session = [s \in Sessions |-> LoggedOut]
    /\ days = NoDays

-----------------------------------------------------------------------------
(* SpecAcc: the accessors, called one at a time on any store contents *)

IntakeBodies ==
    {JNull, JInt(0), JInt(500), JInt(-100), J("float", 12), J("numstr", 40),
     J("str", 0), J("obj", 0)}

LogBodies == {<<>>, <<250, 100>>}

ProfileBodies ==
    {ProfNull, ProfOther, NewProfile,
     Prof("dict", "13-18", JAbsent, Absent),
     Prof("dict", "adult", JAbsent, "Dark"),
     Prof("dict", "65+", J("str", 0), "Aqua"),
     Prof("dict", "6-12", JInt(3000), Absent)}

AmountArgs == {-100, 0, 250}

Call(op, arg, o1, o2, ok, ret, prof, sent) ==
    [op |-> op, arg |-> arg, o1 |-> o1, o2 |-> o2, ok |-> ok, ret |-> ret,
     prof |-> prof, sent |-> sent,
     pre |-> [intake |-> intake, log |-> log, profile |-> profile]]

Record(call) ==
    hist' = IF Len(hist) < 2 THEN Append(hist, call) ELSE <<hist[2], call>>

InitAcc ==
    /\ users = <<>>
    /\ profile \in ProfileBodies
    /\ intake \in IntakeBodies
    /\ log \in LogBodies
    /\ SessionsIdle
    /\ hist = <<>>

AccUpdateIntake ==
    \E amount \in AmountArgs, o \in WriteOutcomes :
        /\ intake' = Applied(o, intake, JInt(validated_amount(amount)))
        /\ Record(Call("update_intake", amount, o, "-", update_intake(o), Ret(0),
                       get_profile(ProfNull), JInt(validated_amount(amount))))
        /\ UNCHANGED <<users, profile, log, pc, loaded, theme, report, days, session>>

AccGetIntake ==
    \E o \in ReadOutcomes :
        /\ Record(Call("get_intake", 0, o, "-", TRUE, get_intake(fb_get(o, intake)),
                       get_profile(ProfNull), JNull))
        /\ UNCHANGED <<users, profile, intake, log, pc, loaded, theme, report, days, session>>

AccResetIntake ==
    \E o1 \in WriteOutcomes, o2 \in WriteOutcomes :
        /\ intake' = Applied(o1, intake, reset_value(intake))
        /\ log' = Applied(o2, log, <<>>)
        /\ Record(Call("reset_intake", 0, o1, o2, reset_intake(o1, o2), Ret(0),
                       get_profile(ProfNull), reset_value(intake)))
        /\ UNCHANGED <<users, profile, pc, loaded, theme, report, days, session>>

AccGetProfile ==
    \E o \in ReadOutcomes :
        /\ Record(Call("get_profile", 0, o, "-", TRUE, Ret(0),
                       get_profile(fb_get_profile(o, profile)), JNull))
        /\ UNCHANGED <<users, profile, intake, log, pc, loaded, theme, report, days, session>>

NextAcc ==
    \/ AccUpdateIntake
    \/ AccGetIntake
    \/ AccResetIntake
    \/ AccGetProfile

SpecAcc == InitAcc /\ [][NextAcc]_vars

(* The last call and the one before it *)
Last == hist[Len(hist)]
Prev == hist[Len(hist) - 1]
Called(op) == Len(hist) >= 1 /\ Last.op = op
CalledAfter(op1, op2) == Len(hist) = 2 /\ Prev.op = op1 /\ Last.op = op2


-----------------------------------------------------------------------------
(* Spec: the dashboard script runs of the sessions (browser tabs) of one    *)
(* logged-in user.  A user interaction starts a script run: view_dashboard  *)
(* reads the profile and today's intake (Load), then the handler of the     *)
(* widget that was used runs on those locals (QuickAdd, CustomAdd,          *)
(* ResetToday, SaveSettings, SidebarTheme, or none: RenderOnly).  A handler *)
(* that ends in st.rerun() is followed by a run without an event (Rerun).   *)
(* The reads of a run and the writes of its handler are separate steps.     *)

CustomAmounts == {0, 100}
GoalEdits == {3000}
IntakeCap == MaxLog * DEFAULT_QUICK_ADD

(* The accumulator as the dashboard reads it from a reachable store *)
StoredIntake == get_intake(intake).v

(* log_water_entry: its return value, and the log it leaves *)
log_water_entry(amount, o) == amount > 0 /\ fb_post(o)

LogAfter_any(amount, o, entries) == Applied(o, entries, Append(entries, amount))

LogAfter(amount, o, entries) ==
    IF amount > 0 THEN Applied(o, entries, Append(entries, amount)) ELSE entries

(* update_profile: its return value, and the PATCH merge of the supplied    *)
(* fields (Absent: not supplied) into the stored profile                    *)
update_profile(o) == fb_patch(o)

Merge_put(p, u) == Prof("dict", u.age_group, u.user_goal_ml, u.theme)

Merge(p, u) ==
    Prof("dict",
         IF u.age_group = Absent THEN p.age_group ELSE u.age_group,
         IF u.user_goal_ml = JAbsent THEN p.user_goal_ml ELSE u.user_goal_ml,
         IF u.theme = Absent THEN p.theme ELSE u.theme)

SessionsOfUser(uid) ==
    /\ pc = [s \in Sessions |-> "idle"]
    /\ loaded = [s \in Sessions |-> NoLoaded]
    /\ theme = [s \in Sessions |-> "Light"]
    /\ report = [s \in Sessions |-> NoReport]
    /\ session = [s \in Sessions |-> LoggedIn(uid)]
    /\ days = NoDays

Init ==
    /\ users = <<[username |-> "a", password |-> "p"]>>
    /\ profile = NewProfile
    /\ intake = JNull
    /\ log = <<>>
    /\ SessionsOfUser(1)
    /\ hist = <<>>

(* st.selectbox(..., index, key="sidebar_theme_select"): a widget keeps the *)
(* value the user gave it while it is rendered with the same arguments and  *)
(* starts from options[index] when they change                              *)
selectbox(w, idx) == IF w.index = idx THEN w.value ELSE idx

(* The end of a handler: the script run is over, its locals are gone *)
Done(s, msgs, wfail, rerun, appended, delta) ==
    /\ pc' = [pc EXCEPT ![s] = "done"]
    /\ loaded' = [loaded EXCEPT ![s] = NoLoaded]
    /\ report' = [report EXCEPT ![s] =
                     [NoReport EXCEPT !.msgs = msgs, !.wfail = wfail, !.rerun = rerun,
                                      !.appended = appended, !.delta = delta]]

(* render_sidebar_navigation, the selectbox returned t, not the session's   *)
(* theme: update_profile of the theme alone, its result dropped, st.rerun() *)
ThemeChanged(s, t, auto) ==
    \E o \in WriteOutcomes :
        /\ theme' = [theme EXCEPT ![s] = t]
        /\ profile' = Applied(o, profile, Merge(profile, Prof("dict", Absent, JAbsent, t)))
        /\ pc' = [pc EXCEPT ![s] = "done"]
        /\ loaded' = [loaded EXCEPT ![s] = NoLoaded]
        /\ report' = [report EXCEPT ![s] =
                         [NoReport EXCEPT !.msgs = {"info"}, !.wfail = ~update_profile(o),
                                          !.rerun = TRUE, !.patched = t,
                                          !.reissued = auto /\ report[s].wfail
                                                            /\ report[s].patched = t]]

(* view_dashboard down to the sidebar's selectbox: get_profile, get_intake, *)
(* the theme taken over from the profile that was read, the selectbox       *)
(* rendered with that theme as its index.  auto: the run was started by     *)
(* st.rerun(), not by the user; such a run has no handler to come.          *)
Dashboard(s, auto) ==
    \E o1 \in ReadOutcomes, o2 \in ReadOutcomes :
        LET p == get_profile(fb_get_profile(o1, profile))
            t == selectbox(session[s].select, p.theme)
        IN  /\ session' = [session EXCEPT ![s].select = [index |-> p.theme, value |-> t]]
            /\ IF t # p.theme
                 THEN ThemeChanged(s, t, auto)
                 ELSE /\ theme' = [theme EXCEPT ![s] = p.theme]
                      /\ pc' = [pc EXCEPT ![s] = IF auto THEN "idle" ELSE "loaded"]
                      /\ loaded' = [loaded EXCEPT ![s] =
                             IF auto THEN NoLoaded
                             ELSE [NoLoaded EXCEPT
                                     !.profile = p,
                                     !.profile_failed = o1 # "ok",
                                     !.intake = get_intake(fb_get(o2, intake)).v,
                                     !.intake_failed = o2 # "ok"]]
                      /\ report' = [report EXCEPT ![s] = NoReport]
                      /\ UNCHANGED profile

(* A script run the user starts with an event *)
Load(s) ==
    /\ pc[s] = "idle" \/ (pc[s] = "done" /\ ~report[s].rerun)
    /\ Dashboard(s, FALSE)
    /\ UNCHANGED <<users, intake, log, hist, days>>

(* The script run st.rerun() starts *)
Rerun(s) ==
    /\ pc[s] = "done" /\ report[s].rerun
    /\ Dashboard(s, TRUE)
    /\ UNCHANGED <<users, intake, log, hist, days>>

(* The value an add handler sends as the new accumulator *)
new_intake_stored(read, amount) == StoredIntake + amount

new_intake(read, amount) == read + amount

(* view_log, Quick Add and Custom Log: log_water_entry, then update_intake  *)
(* of the intake this run read plus the amount, its result dropped          *)
Add(s, amount) ==
    /\ Len(log) < MaxLog
    /\ new_intake(loaded[s].intake, amount) <= IntakeCap
    /\ \E o1 \in WriteOutcomes :
        IF log_water_entry(amount, o1)
          THEN \E o2 \in WriteOutcomes :
               /\ log' = LogAfter(amount, o1, log)
               /\ intake' = Applied(o2, intake,
                               JInt(validated_amount(new_intake(loaded[s].intake, amount))))
               /\ Done(s, {"success"}, ~update_intake(o2), TRUE, amount,
                       get_intake(intake').v - StoredIntake)
          ELSE /\ UNCHANGED <<intake, log>>
               /\ Done(s, {"error"}, TRUE, FALSE, 0, 0)

QuickAdd(s) ==
    /\ pc[s] = "loaded"
    /\ Add(s, DEFAULT_QUICK_ADD)
    /\ UNCHANGED <<users, profile, theme, hist, days, session>>

CustomAdd(s) ==
    /\ pc[s] = "loaded"
    /\ \E custom \in CustomAmounts :
        IF custom > 0
          THEN Add(s, custom)
          ELSE /\ UNCHANGED <<intake, log>>
               /\ Done(s, {}, FALSE, FALSE, 0, 0)
    /\ UNCHANGED <<users, profile, theme, hist, days, session>>

(* view_log, Reset Today's Intake *)
ResetToday(s) ==
    /\ pc[s] = "loaded"
    /\ \E o1 \in WriteOutcomes, o2 \in WriteOutcomes :
        /\ intake' = Applied(o1, intake, reset_value(intake))
        /\ log' = Applied(o2, log, <<>>)
        /\ IF reset_intake(o1, o2)
             THEN Done(s, {"info"}, ~(o1 = "ok" /\ o2 = "ok"), TRUE, 0, 0)
             ELSE Done(s, {"error"}, TRUE, FALSE, 0, 0)
    /\ UNCHANGED <<users, profile, theme, hist, days, session>>

(* The end of the Save All Settings handler *)
Saved(s, msgs, wfail, rerun, unedited) ==
    /\ pc' = [pc EXCEPT ![s] = "done"]
    /\ loaded' = [loaded EXCEPT ![s] = NoLoaded]
    /\ report' = [report EXCEPT ![s] =
                     [NoReport EXCEPT !.msgs = msgs, !.wfail = wfail, !.rerun = rerun,
                                      !.saved_unedited = unedited]]

(* view_settings, Save All Settings: the three widgets start from the       *)
(* profile this run read; the user may have changed the goal or the theme   *)
SaveSettings(s) ==
    /\ pc[s] = "loaded"
    /\ \E custom_goal \in {loaded[s].profile.user_goal_ml} \cup GoalEdits,
          selected_theme \in {loaded[s].profile.theme, "Dark"},
          o \in WriteOutcomes :
        LET updates == Prof("dict", loaded[s].profile.age_group, JInt(custom_goal),
                            selected_theme)
            unedited == /\ custom_goal = loaded[s].profile.user_goal_ml
                        /\ selected_theme = loaded[s].profile.theme
        IN  IF update_profile(o)
              THEN /\ profile' = Applied(o, profile, Merge(profile, updates))
                   /\ theme' = [theme EXCEPT ![s] = selected_theme]
                   /\ Saved(s, IF selected_theme # theme[s]
                                 THEN {"success", "info"} ELSE {"success"},
                            FALSE, TRUE, unedited)
              ELSE /\ UNCHANGED <<profile, theme>>
                   /\ Saved(s, {"error"}, TRUE, FALSE, unedited)
    /\ UNCHANGED <<users, intake, log, hist, days, session>>

(* render_sidebar_navigation, the user has picked another theme in the     *)
(* selectbox                                                                *)
SidebarTheme(s) ==
    /\ pc[s] = "loaded"
    /\ \E t \in Themes \ {theme[s]} :
        /\ session' = [session EXCEPT ![s].select.value = t]
        /\ ThemeChanged(s, t, FALSE)
    /\ UNCHANGED <<users, intake, log, hist, days>>

(* A run whose event has no handler that writes (a navigation button) *)
RenderOnly(s) ==
    /\ pc[s] = "loaded"
    /\ Done(s, {}, FALSE, FALSE, 0, 0)
    /\ UNCHANGED <<users, profile, intake, log, theme, hist, days, session>>

(* Spec runs the script of one tab; the other tab stays on its page *)
ActiveTabs == {"tab1"}

Next ==
    \E s \in ActiveTabs :
        \/ Load(s)
        \/ Rerun(s)
        \/ QuickAdd(s)
        \/ CustomAdd(s)
        \/ ResetToday(s)
        \/ SaveSettings(s)
        \/ SidebarTheme(s)
        \/ RenderOnly(s)

Spec == Init /\ [][Next]_vars

-----------------------------------------------------------------------------
(* SpecAcc2: update_profile and log_water_entry, one call on a store the    *)
(* application can have written                                             *)

LedgerBodies == {JNull, JInt(0), JInt(250)}

ProfileFields ==
    {Prof("dict", Absent, JAbsent, "Dark"),
     Prof("dict", Absent, JInt(1800), Absent),
     Prof("dict", "13-18", JAbsent, Absent),
     Prof("dict", "65+", JInt(2000), "Aqua")}

Call2(op, arg, fields, outs, ok, result) ==
    [op |-> op, arg |-> arg, fields |-> fields, outs |-> outs, ok |-> ok,
     result |-> result,
     pre |-> [intake |-> intake, log |-> log, profile |-> profile, days |-> days]]

InitAcc2 ==
    /\ users = <<>>
    /\ profile \in ProfileBodies
    /\ intake \in LedgerBodies
    /\ log \in LogBodies
    /\ SessionsIdle
    /\ hist = <<>>

AccUpdateProfile ==
    \E updates \in ProfileFields, o \in WriteOutcomes :
        /\ hist = <<>>
        /\ profile' = Applied(o, profile, Merge(profile, updates))
        /\ hist' = <<Call2("update_profile", 0, updates, <<o>>, update_profile(o), <<>>)>>
        /\ UNCHANGED <<users, intake, log, pc, loaded, theme, report, days, session>>

AccLogWaterEntry ==
    \E amount \in AmountArgs, o \in WriteOutcomes :
        /\ hist = <<>>
        /\ log' = LogAfter(amount, o, log)
        /\ hist' = <<Call2("log_water_entry", amount, ProfNull, <<o>>,
                           log_water_entry(amount, o), <<>>)>>
        /\ UNCHANGED <<users, profile, intake, pc, loaded, theme, report, days, session>>

NextAcc2 ==
    \/ AccUpdateProfile
    \/ AccLogWaterEntry

SpecAcc2 == InitAcc2 /\ [][NextAcc2]_vars

(* C11: a successful update_profile(u, fields) leaves every field named in  *)
(* fields with the supplied value and every other field as it was; a failed *)
(* call leaves the profile as it was.                                       *)
C11_PartialUpdate ==
    Called("update_profile")
    => /\ Last.ok = (Last.outs[1] = "ok")
       /\ IF Last.ok
            THEN /\ profile.age_group =
                        IF Last.fields.age_group # Absent
                          THEN Last.fields.age_group ELSE Last.pre.profile.age_group
                 /\ profile.user_goal_ml =
                        IF Last.fields.user_goal_ml # JAbsent
                          THEN Last.fields.user_goal_ml ELSE Last.pre.profile.user_goal_ml
                 /\ profile.theme =
                        IF Last.fields.theme # Absent
                          THEN Last.fields.theme ELSE Last.pre.profile.theme
            ELSE profile = Last.pre.profile

C11_Witness ==
    /\ Called("update_profile")
    /\ Last.ok
    /\ Last.fields = Prof("dict", Absent, JAbsent, "Dark")
    /\ Last.pre.profile = Prof("dict", "6-12", JInt(3000), Absent)
    /\ profile = Prof("dict", "6-12", JInt(3000), "Dark")

(* C16: log_water_entry(u, amount) appends exactly one entry of the amount  *)
(* when amount > 0 and the POST succeeds, appends nothing and returns False *)
(* when amount <= 0, and never changes today's intake.                      *)
C16_LogEntryOnly ==
    Called("log_water_entry")
    => /\ intake = Last.pre.intake
       /\ Last.ok = (Last.arg > 0 /\ Last.outs[1] = "ok")
       /\ log = IF Last.ok THEN Append(Last.pre.log, Last.arg) ELSE Last.pre.log

C16_Witness ==
    /\ Called("log_water_entry")
    /\ Last.arg = 250
    /\ Last.ok
    /\ Last.pre.log = <<250, 100>>
    /\ log = <<250, 100, 250>>
    /\ intake = JInt(0)

-----------------------------------------------------------------------------
(* SpecHist: get_history, one call.  A date is <<year, month, day>>; its    *)
(* isoformat() is the string YYYY-MM-DD, modelled as the sequence of its    *)
(* eight digits (the dashes stand at the same places in every key and play  *)
(* no part in a comparison).                                                *)

MaxDays == 3

TodayDates == {<<2026, 1, 2>>, <<2024, 3, 1>>, <<2026, 3, 1>>, <<2026, 10, 1>>}

IsLeap(y) == (y % 4 = 0 /\ y % 100 # 0) \/ y % 400 = 0

DaysInMonth(y, m) ==
    CASE m \in {4, 6, 9, 11} -> 30
      [] m = 2 -> IF IsLeap(y) THEN 29 ELSE 28
      [] OTHER -> 31

(* d - timedelta(days=1) *)
PrevDay(d) ==
    IF d[3] > 1 THEN <<d[1], d[2], d[3] - 1>>
    ELSE IF d[2] > 1 THEN <<d[1], d[2] - 1, DaysInMonth(d[1], d[2] - 1)>>
    ELSE <<d[1] - 1, 12, 31>>

RECURSIVE MinusDays(_, _)
(* d - timedelta(days=i) *)
MinusDays(d, i) == IF i = 0 THEN d ELSE MinusDays(PrevDay(d), i - 1)

(* date.isoformat() *)
isoformat(d) ==
    <<d[1] \div 1000, (d[1] \div 100) % 10, (d[1] \div 10) % 10, d[1] % 10,
      d[2] \div 10, d[2] % 10, d[3] \div 10, d[3] % 10>>

(* Python's < on two strings of the same length *)
StrLess(a, b) ==
    \E i \in 1..Len(a) :
        /\ a[i] < b[i]
        /\ \A j \in 1..(i - 1) : a[j] = b[j]

RECURSIVE sorted(_)
(* sorted(keys) *)
sorted(keys) ==
    IF keys = {} THEN <<>>
    ELSE LET least == CHOOSE k \in keys : \A other \in keys \ {k} : StrLess(k, other)
         IN  <<least>> \o sorted(keys \ {least})

(* get_history: the value it keeps for a day whose fb_get returned raw *)
intake_value(raw) == Max(0, get_intake(raw).v)

(* history_data after the loop; reads[i] is what fb_get returned for the    *)
(* date i days before today                                                 *)
history_data(today, n, reads) ==
    LET key(i) == isoformat(MinusDays(today, i))
    IN  [k \in {key(i) : i \in 0..(n - 1)} |->
            intake_value(reads[CHOOSE i \in 0..(n - 1) : key(i) = k])]

get_history_unsorted(today, n, reads) ==
    [k \in 1..n |-> [d |-> isoformat(MinusDays(today, k - 1)),
                     v |-> intake_value(reads[k - 1])]]

(* get_history: the returned dict as the sequence of its items *)
get_history(today, n, reads) ==
    LET data == history_data(today, n, reads)
        order == sorted(DOMAIN data)
    IN  [k \in 1..Len(order) |-> [d |-> order[k], v |-> data[order[k]]]]

(* The intake node of the date i days before today *)
DayNode(i) == IF i = 0 THEN intake ELSE days.past[i]

InitHist ==
    /\ users = <<>>
    /\ profile = NewProfile
    /\ intake \in LedgerBodies
    /\ log = <<>>
    /\ pc = [s \in Sessions |-> "idle"]
    /\ loaded = [s \in Sessions |-> NoLoaded]
    /\ theme = [s \in Sessions |-> "Light"]
    /\ report = [s \in Sessions |-> NoReport]
    /\ session = [s \in Sessions |-> LoggedOut]
    /\ days \in [today : TodayDates, past : [1..(MaxDays - 1) -> LedgerBodies]]
    /\ hist = <<>>

AccGetHistory ==
    \E n \in 0..MaxDays :
      \E outs \in [0..(n - 1) -> ReadOutcomes] :
        /\ hist = <<>>
        /\ hist' = <<Call2("get_history", n, ProfNull, outs, TRUE,
                           get_history(days.today, n,
                                       [i \in 0..(n - 1) |-> fb_get(outs[i], DayNode(i))]))>>
        /\ UNCHANGED <<users, profile, intake, log, pc, loaded, theme, report, days, session>>

NextHist == AccGetHistory

SpecHist == InitHist /\ [][NextHist]_vars

(* The date a key spells, and the day after a date *)
DateOfKey(k) ==
    <<k[1] * 1000 + k[2] * 100 + k[3] * 10 + k[4], k[5] * 10 + k[6], k[7] * 10 + k[8]>>

NextDay(d) ==
    IF d[3] < DaysInMonth(d[1], d[2]) THEN <<d[1], d[2], d[3] + 1>>
    ELSE IF d[2] < 12 THEN <<d[1], d[2] + 1, 1>>
    ELSE <<d[1] + 1, 1, 1>>

(* C12: get_history(u, n) returns n entries; their keys are consecutive     *)
(* calendar dates in ascending order, the last one today; the day whose     *)
(* read failed or whose node is absent maps to 0, every other day to its    *)
(* stored intake.                                                           *)
C12_History ==
    Called("get_history")
    => LET r == Last.result
           n == Last.arg
       IN  /\ Len(r) = n
           /\ n > 0 => DateOfKey(r[n].d) = Last.pre.days.today
           /\ \A k \in 1..(n - 1) : NextDay(DateOfKey(r[k].d)) = DateOfKey(r[k + 1].d)
           /\ \A k \in 1..n :
                LET i == n - k
                    stored == IF i = 0 THEN Last.pre.intake ELSE Last.pre.days.past[i]
                IN  r[k].v = IF Last.outs[i] = "ok" /\ stored # JNull THEN stored.n ELSE 0

C12_Witness ==
    /\ Called("get_history")
    /\ Last.arg = 3
    /\ days.today = <<2026, 1, 2>>
    /\ intake = JInt(250)
    /\ days.past[1] = JInt(250)
    /\ days.past[2] = JInt(250)
    /\ Last.outs[0] = "ok" /\ Last.outs[1] = "transport" /\ Last.outs[2] = "ok"
    /\ Last.result = <<[d |-> <<2, 0, 2, 5, 1, 2, 3, 1>>, v |-> 250],
                       [d |-> <<2, 0, 2, 6, 0, 1, 0, 1>>, v |-> 0],
                       [d |-> <<2, 0, 2, 6, 0, 1, 0, 2>>, v |-> 250]>>

-----------------------------------------------------------------------------
(* SpecHome: one run of view_dashboard on the Home page, on any profile     *)
(* goal and intake the store can hold.  Python's true division is modelled  *)
(* exactly: a quotient is the rational num/den with den > 0, and a division *)
(* by zero is the ZeroDivisionError escaping the script run.                *)

GoalBodies == {JAbsent, JInt(2500), JInt(500), JInt(0), JInt(-500)}

HomeProfiles == {ProfNull} \cup {Prof("dict", "19-50", g, "Light") : g \in GoalBodies}

HomeIntakes ==
    {JNull, JInt(0), JInt(250), JInt(1250), JInt(2500), JInt(3000), JInt(-100)}

Rat(num, den) == [exc |-> FALSE, num |-> num, den |-> den]
ZeroDivisionError == [exc |-> TRUE, num |-> 0, den |-> 1]

RatLeq(a, b) == a.num * b.den <= b.num * a.den
RatEq(a, b) == a.num * b.den = b.num * a.den

(* min(a, b) *)
RatMin(a, b) == IF RatLeq(b, a) /\ ~RatEq(a, b) THEN b ELSE a

(* percent = min(intake / goal * 100, 100) *)
percent(drunk, goal) ==
    IF goal = 0 THEN ZeroDivisionError
    ELSE RatMin(IF goal > 0 THEN Rat(drunk * 100, goal) ELSE Rat(-drunk * 100, -goal),
                Rat(100, 1))

(* render_dashboard_main: the delta label of the intake metric, either      *)
(* "<n> ml remaining" or "Goal Achieved!"                                   *)
Remaining(n) == [kind |-> "remaining", n |-> n]
GoalAchieved == [kind |-> "achieved", n |-> 0]
NoLabel == [kind |-> "none", n |-> 0]

metric_label_always(drunk, goal) == Remaining(goal - drunk)

metric_label(drunk, goal) ==
    LET remaining == goal - drunk
    IN  IF remaining > 0 THEN Remaining(remaining) ELSE GoalAchieved

InitHome ==
    /\ users = <<>>
    /\ profile \in HomeProfiles
    /\ intake \in HomeIntakes
    /\ log = <<>>
    /\ SessionsOfUser(1)
    /\ hist = <<>>

(* view_dashboard with nav = "Home": get_profile, get_intake, percent, the  *)
(* theme of the profile taken over, render_dashboard_main                   *)
ViewDashboardHome(s) ==
    \E o1 \in ReadOutcomes, o2 \in ReadOutcomes :
        LET p == get_profile(fb_get_profile(o1, profile))
            i == get_intake(fb_get(o2, intake)).v
            goal == p.user_goal_ml
            pct == percent(i, goal)
        IN  /\ hist = <<>>
            /\ theme' = IF pct.exc THEN theme ELSE [theme EXCEPT ![s] = p.theme]
            /\ pc' = [pc EXCEPT ![s] = "done"]
            /\ hist' = <<Call2("view_dashboard", 0, ProfNull, <<o1, o2>>, ~pct.exc,
                               [intake |-> i, goal |-> goal, percent |-> pct,
                                label |-> IF pct.exc THEN NoLabel
                                          ELSE metric_label(i, goal)])>>
            /\ UNCHANGED <<users, profile, intake, log, loaded, report, days, session>>

NextHome == \E s \in ActiveTabs : ViewDashboardHome(s)

SpecHome == InitHome /\ [][NextHome]_vars

(* C13: the dashboard's percentage is computed without failure and equals   *)
(* clamp(intake / goal * 100, 0, 100) when goal > 0 and 0 otherwise.        *)
C13_PercentClamped ==
    Called("view_dashboard")
    => LET i == Last.result.intake
           g == Last.result.goal
       IN  /\ Last.ok
           /\ RatEq(Last.result.percent,
                    IF g > 0
                      THEN IF i < 0 THEN Rat(0, 1)
                           ELSE IF i > g THEN Rat(100, 1)
                           ELSE Rat(i * 100, g)
                      ELSE Rat(0, 1))

(* C14: the Home page shows a remaining amount only when goal - intake is   *)
(* positive, and then shows goal - intake; when intake >= goal it shows     *)
(* "Goal Achieved!" and no amount, so never a negative one.                 *)
C14_Remaining ==
    (Called("view_dashboard") /\ Last.ok)
    => LET i == Last.result.intake
           g == Last.result.goal
           label == Last.result.label
       IN  /\ (label.kind = "remaining") = (g - i > 0)
           /\ label.kind = "remaining" => label.n = Max(g - i, 0)
           /\ label.kind # "remaining" => label = GoalAchieved

C14_Witness ==
    /\ Called("view_dashboard")
    /\ Last.ok
    /\ Last.result.goal = 2500
    /\ Last.result.intake = 3000
    /\ Last.result.label = GoalAchieved

-----------------------------------------------------------------------------
(* Claims about the dashboard handlers, checked under Spec *)

RECURSIVE Sum(_)
Sum(entries) == IF entries = <<>> THEN 0 ELSE Head(entries) + Sum(Tail(entries))

(* C1: in every state reached by quick-add, custom-add and reset, whose     *)
(* store calls may each fail, today's stored intake equals the sum of the   *)
(* amounts of today's stored log entries.                                   *)
C1_IntakeIsSumOfLog == StoredIntake = Sum(log)

(* C2: when an add handler has completed and its log_water_entry appended   *)
(* an entry of amount a, the stored accumulator was increased by a.         *)
C2_AppendPairedWithUpdate ==
    \A s \in Sessions :
        (pc[s] = "done" /\ report[s].appended > 0)
        => report[s].delta = report[s].appended

(* C3: a handler one of whose store writes failed shows a failure message   *)
(* and no success or info message.                                          *)
C3_WritesFailClosed ==
    \A s \in Sessions :
        (pc[s] = "done" /\ report[s].wfail)
        => ("error" \in report[s].msgs /\ report[s].msgs \cap {"success", "info"} = {})

(* C18: no script run that st.rerun() started, rather than the user, issues *)
(* again the store write that failed in the run before it.                  *)
C18_NoRetries == \A s \in Sessions : ~report[s].reissued

(* C19: an add handler all of whose writes succeeded, in a run whose        *)
(* get_intake read failed while the store held an intake v > 0, leaves the  *)
(* stored intake at least v.                                                *)
C19_FailedReadKeepsData ==
    [][\A s \in Sessions :
          (/\ pc[s] = "loaded"
           /\ loaded[s].intake_failed
           /\ StoredIntake > 0
           /\ pc'[s] = "done"
           /\ report'[s].appended > 0
           /\ ~report'[s].wfail)
          => StoredIntake' >= StoredIntake]_vars

(* C22: Save All Settings pressed with the form as it was shown, in a run   *)
(* whose profile read failed, leaves the stored age_group, user_goal_ml and *)
(* theme as they were.                                                      *)
C22_SaveKeepsUnchanged ==
    [][\A s \in Sessions :
          (/\ pc[s] = "loaded"
           /\ loaded[s].profile_failed
           /\ pc'[s] = "done"
           /\ report'[s].saved_unedited)
          => profile' = profile]_vars

-----------------------------------------------------------------------------
(* SpecLedger: the operations that write today's intake, from a ledger      *)
(* that is empty or holds a non-negative integer: the Log Water handlers of *)
(* one tab, whose store calls may each fail, and update_intake called       *)
(* directly with any integer.                                               *)

InitLedger ==
    /\ users = <<[username |-> "a", password |-> "p"]>>
    /\ profile = NewProfile
    /\ intake \in LedgerBodies
    /\ log = <<>>
    /\ SessionsOfUser(1)
    /\ hist = <<>>

DirectUpdateIntake ==
    \E amount \in AmountArgs, o \in WriteOutcomes :
        /\ intake' = Applied(o, intake, JInt(validated_amount(amount)))
        /\ hist' = <<[op |-> "update_intake", arg |-> amount, ok |-> update_intake(o)]>>
        /\ UNCHANGED <<users, profile, log, pc, loaded, theme, report, days, session>>

NextLedger ==
    \/ \E s \in ActiveTabs :
          \/ Load(s)
          \/ Rerun(s)
          \/ QuickAdd(s)
          \/ CustomAdd(s)
          \/ ResetToday(s)
    \/ DirectUpdateIntake

SpecLedger == InitLedger /\ [][NextLedger]_vars

(* C17: today's stored intake is absent or a non-negative integer after any *)
(* sequence of quick add, custom add, reset and update_intake with any      *)
(* integer, from a ledger that is empty or non-negative.                    *)
C17_IntakeNonNegative == intake = JNull \/ (intake.t = "int" /\ intake.n >= 0)

C17_Witness ==
    /\ Called("update_intake")
    /\ Last.arg = -100
    /\ Last.ok
    /\ log = <<250, 250>>
    /\ intake = JInt(0)

-----------------------------------------------------------------------------
(* SpecTabs: two browser tabs of the same user on the Log Water page, the   *)
(* store answering every call.  Each tab's run reads the intake (Load) and  *)
(* its add handler writes later, so the other tab's steps may come between. *)

(* The step of session s met no failed store call *)
Available(s) ==
    /\ ~report'[s].wfail
    /\ "error" \notin report'[s].msgs
    /\ pc'[s] = "loaded" => ~loaded'[s].intake_failed

TabLoad(s) == Load(s) /\ Available(s)
TabRerun(s) == Rerun(s) /\ Available(s)
TabQuickAdd(s) == QuickAdd(s) /\ Available(s)
TabCustomAdd(s) == CustomAdd(s) /\ Available(s)

NextTabs ==
    \E s \in Sessions :
        \/ TabLoad(s)
        \/ TabRerun(s)
        \/ TabQuickAdd(s)
        \/ TabCustomAdd(s)

SpecTabs == Init /\ [][NextTabs]_vars

(* C15: an add handler whose writes succeed stores the intake its own run   *)
(* read plus the amount, whatever the store holds by then; so two tabs that *)
(* both read before either adds both report success and the store keeps     *)
(* only one of the two amounts (C15_LostUpdate is reached).                 *)
C15_ReadModifyWrite ==
    [][\A s \in Sessions :
          (/\ pc[s] = "loaded"
           /\ pc'[s] = "done"
           /\ report'[s].appended > 0
           /\ ~report'[s].wfail)
          => StoredIntake' = loaded[s].intake + report'[s].appended]_vars

C15_LostUpdate ==
    /\ \A s \in Sessions :
          /\ pc[s] = "done"
          /\ report[s].msgs = {"success"}
          /\ ~report[s].wfail
          /\ report[s].appended > 0
    /\ Len(log) = 2
    /\ StoredIntake < Sum(log)
    /\ \E s \in Sessions : StoredIntake = report[s].appended

-----------------------------------------------------------------------------
(* SpecAuth: the signup page.  Register Account runs create_user: find_user *)
(* reads /users (SignupFind), and unless it found the name the record is    *)
(* POSTed (SignupPost); the two HTTP calls of one session may have another  *)
(* session's calls between them.  A uid is the record's place in /users:    *)
(* the store hands out push ids in increasing order.                        *)

UsernameInputs == {"a", "a ", "b", " "}
PasswordInputs == {"p", "q"}

(* str.strip on the inputs above *)
strip(u) == CASE u = "a " -> "a" [] u = " " -> "" [] OTHER -> u

(* fb_get(USERS_NODE): the records on status 200, None (no dict) otherwise *)
fb_get_users(o, recs) == IF o = "ok" THEN recs ELSE <<>>

(* find_user: the uid of the first record with the username, 0 for None *)
find_user(all_users, username) ==
    LET hits == {i \in 1..Len(all_users) : all_users[i].username = username}
    IN  IF hits = {} THEN 0 ELSE CHOOSE i \in hits : \A j \in hits : i <= j

InitAuth ==
    /\ users = <<>>
    /\ profile = ProfNull
    /\ intake = JNull
    /\ log = <<>>
    /\ SessionsIdle
    /\ hist = <<>>

(* view_signup up to the end of find_user: empty input is refused by the    *)
(* page (the raw input) or by create_user (the stripped username)           *)
SignupFind(s) ==
    /\ pc[s] \in {"idle", "done"}
    /\ \E username \in UsernameInputs, password \in PasswordInputs, o \in ReadOutcomes :
        IF strip(username) = ""
          THEN /\ Done(s, {"error"}, FALSE, FALSE, 0, 0)
          ELSE /\ pc' = [pc EXCEPT ![s] = "found"]
               /\ report' = [report EXCEPT ![s] = NoReport]
               /\ loaded' = [loaded EXCEPT ![s] =
                                [NoLoaded EXCEPT
                                    !.found = find_user(fb_get_users(o, users),
                                                        strip(username)),
                                    !.username = strip(username),
                                    !.password = password]]
    /\ UNCHANGED <<users, profile, intake, log, theme, hist, days, session>>

(* create_user after find_user, and the message view_signup shows *)
SignupPost(s) ==
    /\ pc[s] = "found"
    /\ IF loaded[s].found # 0
         THEN /\ UNCHANGED users
              /\ Done(s, {"error"}, FALSE, FALSE, 0, 0)
         ELSE /\ Len(users) < MaxUsers
              /\ \E o \in WriteOutcomes :
                    /\ users' = Applied(o, users,
                                   Append(users, [username |-> loaded[s].username,
                                                  password |-> loaded[s].password]))
                    /\ IF o = "ok"
                         THEN Done(s, {"success"}, FALSE, TRUE, 0, 0)
                         ELSE Done(s, {"error"}, TRUE, FALSE, 0, 0)
    /\ UNCHANGED <<profile, intake, log, theme, hist, days, session>>

NextAuth ==
    \E s \in Sessions :
        \/ SignupFind(s)
        \/ SignupPost(s)

SpecAuth == InitAuth /\ [][NextAuth]_vars

(* C4: no two user records of the store have the same username. *)
C4_UsernamesUnique ==
    \A i, j \in 1..Len(users) : users[i].username = users[j].username => i = j

-----------------------------------------------------------------------------
(* SpecSession: one browser session from the login page on.  main() shows   *)
(* view_login or view_signup while st.session_state.logged_in is False and  *)
(* view_dashboard otherwise.  The store holds the account a/p, whose        *)
(* profile and ledger are the modelled ones.                                *)

(* login_user: the uid it returns with True, 0 for (False, None) *)
login_user(all_users, username, password) ==
    LET uid == find_user(all_users, username)
    IN  IF uid # 0 /\ all_users[uid].password = password THEN uid ELSE 0

(* The session state the Logout button leaves *)
logout_keep_uid(sess) == [sess EXCEPT !.logged_in = FALSE, !.view = "login"]

logout(sess) == [LoggedOut EXCEPT !.accepted = sess.accepted]

InitSession ==
    /\ users = <<[username |-> "a", password |-> "p"]>>
    /\ profile = NewProfile
    /\ intake = JNull
    /\ log = <<>>
    /\ SessionsIdle
    /\ hist = <<>>

(* A run may start: none is under way and none is owed to st.rerun() *)
Ready(s) == pc[s] = "idle" \/ (pc[s] = "done" /\ ~report[s].rerun)

(* view_login, Sign In *)
LoginSubmit(s) ==
    /\ ~session[s].logged_in /\ session[s].view = "login"
    /\ Ready(s)
    /\ \E username \in UsernameInputs, password \in PasswordInputs,
          o1 \in ReadOutcomes, o2 \in ReadOutcomes :
        LET uid == login_user(fb_get_users(o1, users), strip(username), password)
        IN  IF uid # 0
              THEN /\ session' = [session EXCEPT ![s] =
                                     [@ EXCEPT !.logged_in = TRUE, !.uid = uid,
                                               !.view = "dashboard",
                                               !.accepted = @ \cup {uid}]]
                   /\ theme' = [theme EXCEPT ![s] =
                                   get_profile(fb_get_profile(o2, profile)).theme]
                   /\ Done(s, {"success"}, FALSE, TRUE, 0, 0)
              ELSE /\ UNCHANGED <<session, theme>>
                   /\ Done(s, {"error"}, FALSE, FALSE, 0, 0)
    /\ UNCHANGED <<users, profile, intake, log, hist, days>>

(* view_login, Create new account *)
GoSignup(s) ==
    /\ ~session[s].logged_in /\ session[s].view = "login"
    /\ Ready(s)
    /\ session' = [session EXCEPT ![s].view = "signup"]
    /\ Done(s, {}, FALSE, TRUE, 0, 0)
    /\ UNCHANGED <<users, profile, intake, log, theme, hist, days>>

(* view_signup, Back to Login *)
BackToLogin(s) ==
    /\ ~session[s].logged_in /\ session[s].view = "signup"
    /\ Ready(s)
    /\ session' = [session EXCEPT ![s].view = "login"]
    /\ Done(s, {}, FALSE, TRUE, 0, 0)
    /\ UNCHANGED <<users, profile, intake, log, theme, hist, days>>

(* The run st.rerun() starts while logged out: a page without store calls *)
PageRerun(s) ==
    /\ ~session[s].logged_in
    /\ pc[s] = "done" /\ report[s].rerun
    /\ pc' = [pc EXCEPT ![s] = "idle"]
    /\ report' = [report EXCEPT ![s] = NoReport]
    /\ UNCHANGED <<users, profile, intake, log, loaded, theme, hist, days, session>>

(* view_dashboard, `if not uid` *)
Expired(s) ==
    /\ session' = [session EXCEPT ![s].logged_in = FALSE, ![s].view = "login"]
    /\ Done(s, {"error"}, FALSE, TRUE, 0, 0)
    /\ UNCHANGED <<users, profile, intake, log, theme, hist, days>>

(* main() reaching view_dashboard in a run the user started *)
SessionLoad(s) ==
    /\ session[s].logged_in
    /\ IF session[s].uid = 0 THEN Ready(s) /\ Expired(s) ELSE Load(s)

(* main() reaching view_dashboard in the run st.rerun() started *)
SessionRerun(s) ==
    /\ session[s].logged_in
    /\ IF session[s].uid = 0
         THEN pc[s] = "done" /\ report[s].rerun /\ Expired(s)
         ELSE Rerun(s)

(* render_sidebar_navigation, the Logout button *)
Logout(s) ==
    /\ pc[s] = "loaded"
    /\ session' = [session EXCEPT ![s] = logout(@)]
    /\ Done(s, {}, FALSE, TRUE, 0, 0)
    /\ UNCHANGED <<users, profile, intake, log, theme, hist, days>>

NextSession ==
    \E s \in ActiveTabs :
        \/ LoginSubmit(s)
        \/ GoSignup(s)
        \/ BackToLogin(s)
        \/ PageRerun(s)
        \/ SessionLoad(s)
        \/ SessionRerun(s)
        \/ QuickAdd(s)
        \/ CustomAdd(s)
        \/ ResetToday(s)
        \/ SaveSettings(s)
        \/ SidebarTheme(s)
        \/ RenderOnly(s)
        \/ Logout(s)

SpecSession == InitSession /\ [][NextSession]_vars

(* C20: a logged-in session holds the uid of an account whose credentials   *)
(* login_user accepted in that session; a step that ends logged_in leaves   *)
(* uid None and the login view; and every handler step, every PATCH of the  *)
(* theme and every change of the profile or the ledger is made by a session *)
(* that is logged in.                                                       *)
C20_SessionInvariant ==
    /\ [](\A s \in Sessions :
            session[s].logged_in
            => /\ session[s].uid # 0
               /\ session[s].uid \in session[s].accepted
               /\ session[s].uid \in 1..Len(users))
    /\ [][\A s \in Sessions :
            /\ (session[s].logged_in /\ ~session'[s].logged_in)
               => (session'[s].uid = 0 /\ session'[s].view = "login")
            /\ (\/ pc[s] = "loaded" /\ pc'[s] = "done"
                \/ report'[s].patched # "absent" /\ report'[s] # report[s]
                \/ (<<profile, intake, log>>' # <<profile, intake, log>>
                    /\ <<pc[s], report[s]>>' # <<pc[s], report[s]>>))
               => session[s].logged_in]_vars

C20_Witness ==
    \E s \in Sessions :
        /\ ~session[s].logged_in
        /\ session[s].uid = 0
        /\ session[s].view = "login"
        /\ session[s].accepted = {1}
        /\ pc[s] = "done"
        /\ log = <<250>>
        /\ profile.theme = "Dark"

-----------------------------------------------------------------------------
(* SpecLogin: the signup page of SpecAuth, by which two sessions fill       *)
(* /users, and then one call of login_user on the store they left.          *)

LoginNames == {"a", "b", "A"}

AccLoginUser ==
    \E username \in LoginNames, password \in PasswordInputs, o \in ReadOutcomes :
        /\ hist = <<>>
        /\ hist' = <<[op |-> "login_user", username |-> username, password |-> password,
                      outs |-> <<o>>,
                      result |-> login_user(fb_get_users(o, users), username, password)]>>
        /\ UNCHANGED <<users, profile, intake, log, pc, loaded, theme, report, days, session>>

(* The signup steps, until login_user is called *)
BeforeLoginFind(s) == hist = <<>> /\ SignupFind(s)
BeforeLoginPost(s) == hist = <<>> /\ SignupPost(s)

NextLogin ==
    \/ \E s \in Sessions :
          \/ BeforeLoginFind(s)
          \/ BeforeLoginPost(s)
    \/ AccLoginUser

SpecLogin == InitAuth /\ [][NextLogin]_vars

(* C21: login_user(username, password) returns the uid of a record with     *)
(* that username and that password when the read of /users succeeds and the *)
(* store holds such a record, and (False, None) in every other case.        *)
C21_LoginIff ==
    Called("login_user")
    => LET match == {i \in 1..Len(users) :
                        /\ users[i].username = Last.username
                        /\ users[i].password = Last.password}
       IN  IF Last.outs[1] = "ok" /\ match # {}
             THEN Last.result \in match
             ELSE Last.result = 0

-----------------------------------------------------------------------------
(* Claims about the accessors, checked under SpecAcc *)

StoreUp2 == Prev.o1 = "ok" /\ Last.o1 = "ok"

(* C5: with the store available, update_intake(u, ml) with ml >= 0 followed *)
(* by get_intake(u) returns ml.                                             *)
C5_RoundTrip ==
    (/\ CalledAfter("update_intake", "get_intake")
     /\ Prev.arg >= 0
     /\ StoreUp2)
    => Last.ret = Ret(Prev.arg)

C5_Witness ==
    /\ CalledAfter("update_intake", "get_intake")
    /\ StoreUp2
    /\ Prev.arg = 250
    /\ Prev.pre.intake = JInt(500)
    /\ Last.ret = Ret(250)

(* C6: update_intake(u, ml) with ml < 0 sends 0 as today's intake, returns  *)
(* True exactly when the PATCH succeeded, and the store then holds 0 (its   *)
(* old value when the PATCH failed); the log entries are untouched.         *)
C6_ClampNegative ==
    (Called("update_intake") /\ Last.arg < 0)
    => /\ Last.sent = JInt(0)
       /\ Last.ok = (Last.o1 = "ok")
       /\ intake = IF Last.ok THEN JInt(0) ELSE Last.pre.intake
       /\ log = Last.pre.log

C6_Witness ==
    /\ Called("update_intake")
    /\ Last.arg = -100
    /\ Last.ok
    /\ Last.pre.intake = JInt(500)
    /\ intake = JInt(0)

(* C7: with the store available, reset_intake(u) followed by get_intake(u)  *)
(* returns 0 whatever the accumulator and the log held before.              *)
C7_ResetThenGet ==
    (/\ CalledAfter("reset_intake", "get_intake")
     /\ StoreUp2
     /\ Prev.o2 = "ok")
    => Last.ret = Ret(0)

C7_Witness ==
    /\ CalledAfter("reset_intake", "get_intake")
    /\ StoreUp2
    /\ Prev.o2 = "ok"
    /\ Prev.pre.intake = JInt(500)
    /\ Prev.pre.log # <<>>
    /\ Last.ret = Ret(0)

(* C8: reset_intake(u) returns True only if today's intake was written as 0 *)
(* and the log_entries node was removed, and False whenever either of its   *)
(* two store calls fails.                                                   *)
C8_ResetFailClosed ==
    Called("reset_intake")
    => /\ Last.ok = (Last.o1 = "ok" /\ Last.o2 = "ok")
       /\ Last.ok => (intake = JInt(0) /\ log = <<>>)

(* C9 as stated: get_intake(u) never raises, returns 0 when the value is    *)
(* absent, the read fails or the body is not an integer, and the stored     *)
(* integer otherwise.                                                       *)
C9_ZeroUnlessInteger ==
    Called("get_intake")
    => /\ ~Last.ret.exc
       /\ Last.ret.v = IF Last.o1 = "ok" /\ Last.pre.intake.t = "int"
                         THEN Last.pre.intake.n ELSE 0

(* C9 as amended: get_intake(u) never raises; it returns 0 when the value   *)
(* is absent, the read fails, or the body is one int() rejects (a string    *)
(* that spells no integer, an object, an array); otherwise it returns       *)
(* int(body): the stored integer, the truncation toward zero of a number    *)
(* with a fractional part, the integer a decimal string spells.             *)
C9_ZeroUnlessConvertible ==
    Called("get_intake")
    => /\ ~Last.ret.exc
       /\ Last.ret.v = IF /\ Last.o1 = "ok"
                          /\ Last.pre.intake.t \in {"int", "float", "numstr", "bool"}
                         THEN Last.pre.intake.n ELSE 0

C9_Witness ==
    /\ Called("get_intake")
    /\ Last.o1 = "ok"
    /\ Last.pre.intake = J("str", 0)
    /\ Last.ret = Ret(0)

(* C10: when the profile record is absent or the read fails, get_profile(u) *)
(* does not raise and returns exactly {19-50, 2500, Light}.                 *)
C10_DefaultProfile ==
    (Called("get_profile") /\ (Last.o1 # "ok" \/ Last.pre.profile.t = "null"))
    => Last.prof = [exc |-> FALSE, age_group |-> "19-50", user_goal_ml |-> 2500,
                    theme |-> "Light"]

C10_Witness ==
    /\ Called("get_profile")
    /\ Last.o1 = "transport"
    /\ Last.pre.profile = Prof("dict", "65+", J("str", 0), "Aqua")
    /\ Last.prof.user_goal_ml = 2500

====
